---- MODULE Spec2Model ----
(***************************************************************************)
(* WordOfTheDay: extraction of a dictionary entry (word_entry.py), of its  *)
(* etymology tab (etymology_entry.py) and the plain-text report            *)
(* (email_sender.py).                                                      *)
(*                                                                         *)
(* Representation.                                                         *)
(*   - A Python str is a sequence of characters; a character is a string   *)
(*     of length one.  EnDash and Sup1 stand for U+2013 and U+00B9.        *)
(*   - Optional[X] is a sequence of length at most one: None is <<>>, a    *)
(*     value x is <<x>>.  The result of a BeautifulSoup find() is an       *)
(*     Optional element; an element is represented by what the code reads  *)
(*     of it (its text, or its children).                                  *)
(*   - The meanings section is the sequence of its elements of class       *)
(*     "sense" in document (depth-first, pre-order) order; parent is the   *)
(*     index of the nearest enclosing sense element, 0 for none.  The      *)
(*     sub-elements a sense element owns directly are laid out before the  *)
(*     sense elements nested in it.                                        *)
(***************************************************************************)
EXTENDS Integers, Sequences, FiniteSets, TLC

VARIABLES
    page,             \* the entry page handed to WordEntry.from_html
    etym_page,        \* the etymology tab handed to EtymologyEntry.from_html
    word_entry,       \* Optional[WordEntry]
    etymology_entry,  \* Optional[EtymologyEntry]
    email_body,       \* Optional[str]: what format_word_entry_email returned
    error,            \* the exception that left the operation, "" for none
    pc,               \* position of the operation under way
    config,           \* Optional[EmailConfig] handed to send_word_email
    calls,            \* the calls made to the collaborators (SMTP, HTTP,
                      \* console, file system) so far, each with its outcome
    result,           \* Optional[str]: what a fetching operation returned
    url               \* Optional[str]: the URL a fetching operation is given

vars == <<page, etym_page, word_entry, etymology_entry, email_body, error, pc,
          config, calls, result, url>>

-----------------------------------------------------------------------------
(* Optional values and characters *)

None == <<>>

Some(x) == <<x>>

EnDash == "<U+2013>"

Sup1 == "<U+00B9>"

NL == "\n"

Letters ==
    {"a", "b", "E", "S", "e", "h", "l", "m", "n", "o", "s", "t", "w", "y"}

Whitespace == {" ", NL}

\* str.isalpha() of one character
IsAlpha(c) == c \in Letters

\* ord(c): the code point, which orders str values
Ord(c) ==
    CASE c = NL -> 10
      [] c = " " -> 32
      [] c = "'" -> 39
      [] c = "-" -> 45
      [] c = "1" -> 49
      [] c = "2" -> 50
      [] c = "3" -> 51
      [] c = ":" -> 58
      [] c = "<" -> 60
      [] c = "E" -> 69
      [] c = "S" -> 83
      [] c = "a" -> 97
      [] c = "b" -> 98
      [] c = "e" -> 101
      [] c = "h" -> 104
      [] c = "l" -> 108
      [] c = "m" -> 109
      [] c = "n" -> 110
      [] c = "o" -> 111
      [] c = "s" -> 115
      [] c = "t" -> 116
      [] c = "w" -> 119
      [] c = "y" -> 121
      [] c = Sup1 -> 185
      [] c = EnDash -> 8211

-----------------------------------------------------------------------------
(* str methods *)

RECURSIVE LStrip(_)
LStrip(s) ==
    IF s # <<>> /\ Head(s) \in Whitespace THEN LStrip(Tail(s)) ELSE s

RECURSIVE RStrip(_)
RStrip(s) ==
    IF s # <<>> /\ s[Len(s)] \in Whitespace
    THEN RStrip(SubSeq(s, 1, Len(s) - 1))
    ELSE s

\* s.strip()
Strip(s) == RStrip(LStrip(s))

\* s.replace(old, new) for single characters
Replace(s, old, new) == [i \in DOMAIN s |-> IF s[i] = old THEN new ELSE s[i]]

\* s.split(sep) for a single-character separator
RECURSIVE Split(_, _)
Split(s, sep) ==
    IF \E i \in DOMAIN s : s[i] = sep
    THEN LET i == CHOOSE k \in DOMAIN s :
                      s[k] = sep /\ \A j \in 1..(k - 1) : s[j] # sep
         IN  <<SubSeq(s, 1, i - 1)>> \o Split(SubSeq(s, i + 1, Len(s)), sep)
    ELSE <<s>>

\* s.endswith(suffix)
EndsWith(s, suffix) ==
    /\ Len(suffix) <= Len(s)
    /\ SubSeq(s, Len(s) - Len(suffix) + 1, Len(s)) = suffix

\* the text of the "Show less" button
ShowLess == <<"S", "h", "o", "w", " ", "l", "e", "s", "s">>

\* s < t for str: lexicographic by code point
RECURSIVE StrLess(_, _)
StrLess(s, t) ==
    IF t = <<>> THEN FALSE
    ELSE IF s = <<>> THEN TRUE
    ELSE IF Head(s) = Head(t) THEN StrLess(Tail(s), Tail(t))
    ELSE Ord(Head(s)) < Ord(Head(t))

\* sorted(keys): ascending, keys pairwise distinct
RECURSIVE Sorted(_)
Sorted(keys) ==
    IF keys = {} THEN <<>>
    ELSE LET least == CHOOSE k \in keys : \A o \in keys \ {k} : StrLess(k, o)
         IN  <<least>> \o Sorted(keys \ {least})

-----------------------------------------------------------------------------
(* BeautifulSoup queries on the meanings section.                          *)
(* A sense element is [parent, enum, def, date, quotes, tags]: enum, def   *)
(* and date are the Optional texts of its own item-enumerator, definition  *)
(* and daterange-container divs, quotes the sequence of its own quotation  *)
(* items [date, text, cite] (each an Optional text), tags the Optional     *)
(* sequence of the a.tag texts of its own tags div.                        *)

\* element j lies in the subtree of element i (i itself included)
RECURSIVE Within(_, _, _)
Within(senses, j, i) ==
    IF j = i THEN TRUE
    ELSE IF j = 0 THEN FALSE
    ELSE Within(senses, senses[j].parent, i)

\* element.children that are sense elements, in document order
Children(senses, i) ==
    LET kids == {j \in DOMAIN senses : senses[j].parent = i}
    IN  SelectSeq([j \in DOMAIN senses |-> j], LAMBDA j : j \in kids)

\* sense.find(tag, class_=cls): the first match in document order among the
\* descendants of sense i
Find(senses, i, cls) ==
    LET hits == {j \in DOMAIN senses :
                     Within(senses, j, i) /\ senses[j][cls] # None}
    IN  IF hits = {} THEN None
        ELSE senses[CHOOSE j \in hits : \A k \in hits : j <= k][cls]

\* sense.find_all("li", class_="quotation"): every match, document order
RECURSIVE FindAllQuotations(_, _, _)
FindAllQuotations(senses, i, j) ==
    IF j > Len(senses) THEN <<>>
    ELSE (IF Within(senses, j, i) THEN senses[j].quotes ELSE <<>>)
             \o FindAllQuotations(senses, i, j + 1)

-----------------------------------------------------------------------------
(* word_entry.py *)

\* a pair whose end is the last segment instead of the second
DatePairLast(dates) ==
    <<dates[1], IF Len(dates) > 1 THEN dates[Len(dates)] ELSE <<>>>>

\* dates -> (dates[0], dates[1] if len(dates) > 1 else "")
DatePair(dates) == <<dates[1], IF Len(dates) > 1 THEN dates[2] ELSE <<>>>>

\* date_div.text.strip().replace(en dash, "-").split("-") and the pair of it
DateRange(text) == DatePair(Split(Replace(Strip(text), EnDash, "-"), "-"))

\* an examples loop that asks for date and text only and takes a missing
\* citation for an empty one
ExamplesWithoutCitation(quotations) ==
    LET kept == SelectSeq(quotations,
                    LAMBDA q : q.date # None /\ q.text # None)
    IN  [k \in DOMAIN kept |->
            <<Strip(kept[k].date[1]), Strip(kept[k].text[1]),
              IF kept[k].cite = None THEN <<>> ELSE Strip(kept[k].cite[1])>>]

\* the examples loop: a quotation with date, text and citation all found
Examples(quotations) ==
    LET full == SelectSeq(quotations,
                    LAMBDA q : q.date # None /\ q.text # None /\ q.cite # None)
    IN  [k \in DOMAIN full |->
            <<Strip(full[k].date[1]), Strip(full[k].text[1]),
              Strip(full[k].cite[1])>>]

\* WordEntry._get_definition_from_sense: Optional[Definition]
get_definition_from_sense(senses, i) ==
    LET sense_num_div == Find(senses, i, "enum")
        def_div == Find(senses, i, "def")
        date_div == Find(senses, i, "date")
        tags_div == Find(senses, i, "tags")
    IN  IF def_div = None THEN None
        ELSE Some([sense_number |->
                       IF sense_num_div # None THEN Strip(sense_num_div[1])
                       ELSE <<>>,
                   definition_text |-> Strip(def_div[1]),
                   date_range |->
                       IF date_div # None THEN Some(DateRange(date_div[1]))
                       ELSE None,
                   examples |-> Examples(FindAllQuotations(senses, i, 1)),
                   subject_tags |->
                       IF tags_div # None
                       THEN [k \in DOMAIN tags_div[1] |-> Strip(tags_div[1][k])]
                       ELSE <<>>])

\* the keys of definition_map, in insertion order
Keys(definition_map) == {definition_map[k].text : k \in DOMAIN definition_map}

\* a variant that keys the map by the definition text as it stands, unstripped
RecordRaw(senses, i, definition_map) ==
    LET def_div == Find(senses, i, "def")
    IN  IF def_div = None THEN definition_map
        ELSE IF def_div[1] \in Keys(definition_map) THEN definition_map
        ELSE Append(definition_map, [text |-> def_div[1], sense |-> i])

\* a variant in which a later sense element takes the place of the one
\* recorded under the same text
RecordLast(senses, i, definition_map) ==
    LET def_div == Find(senses, i, "def")
    IN  IF def_div = None THEN definition_map
        ELSE IF Strip(def_div[1]) \in Keys(definition_map)
        THEN [k \in DOMAIN definition_map |->
                 IF definition_map[k].text = Strip(def_div[1])
                 THEN [text |-> Strip(def_div[1]), sense |-> i]
                 ELSE definition_map[k]]
        ELSE Append(definition_map, [text |-> Strip(def_div[1]), sense |-> i])

\* the body of process_element for one sense element: record it under its
\* definition text unless that text is a key already
Record(senses, i, definition_map) ==
    LET def_div == Find(senses, i, "def")
    IN  IF def_div = None THEN definition_map
        ELSE IF Strip(def_div[1]) \in Keys(definition_map) THEN definition_map
        ELSE Append(definition_map, [text |-> Strip(def_div[1]), sense |-> i])

\* process_element: element 0 is the meanings section itself, which is no
\* sense element; then the children, each recursively
RECURSIVE process_element(_, _, _)
RECURSIVE process_children(_, _, _)
process_element(senses, i, definition_map) ==
    process_children(senses, Children(senses, i),
        IF i # 0 THEN Record(senses, i, definition_map) ELSE definition_map)

process_children(senses, kids, definition_map) ==
    IF kids = <<>> THEN definition_map
    ELSE process_children(senses, Tail(kids),
             process_element(senses, Head(kids), definition_map))

\* definition_map[text]
Lookup(definition_map, text) ==
    (CHOOSE k \in DOMAIN definition_map : definition_map[k].text = text)

\* the senses in insertion order of the map, without sorted()
InsertionOrder(definition_map) ==
    [k \in DOMAIN definition_map |-> definition_map[k].sense]

\* [definition_map[text] for text in sorted(definition_map.keys())]
SenseOrder(definition_map) ==
    LET keys == Sorted(Keys(definition_map))
    IN  [k \in DOMAIN keys |-> definition_map[Lookup(definition_map, keys[k])].sense]

\* the loop that builds definitions: a sense giving None is skipped
RECURSIVE Definitions(_, _)
Definitions(senses, order) ==
    IF order = <<>> THEN <<>>
    ELSE get_definition_from_sense(senses, Head(order))
             \o Definitions(senses, Tail(order))

\* a filter that keeps digits as well (c.isalnum())
SanitizeKeepsDigits(word) ==
    SelectSeq(word, LAMBDA c : IsAlpha(c) \/ c \in {"1", "2", "3"} \/ c \in {"-", "'"})

\* "".join(c for c in word if c.isalpha() or c in ("-", "'"))
Sanitize(word) == SelectSeq(word, LAMBDA c : IsAlpha(c) \/ c \in {"-", "'"})

\* WordEntry.from_html after both anchors were found: the word, the walk
\* over the meanings section and the definitions in sorted-key order
build_entry(p, senses) ==
    [word |-> Sanitize(Strip(p.headword[1])),
     definitions |->
         Definitions(senses, SenseOrder(process_element(senses, 0, <<>>))),
     etymology |-> <<>>]

\* a from_html that takes a missing meanings section for an empty one
from_html_lenient(p) ==
    IF p.headword = None
    THEN [raised |-> "ValueError: Could not find headword", value |-> None]
    ELSE [raised |-> "",
          value |-> Some(build_entry(p, IF p.meaning = None THEN <<>>
                                        ELSE p.meaning[1]))]

\* WordEntry.from_html: the exception raised ("" for none) and the value
from_html(p) ==
    IF p.headword = None
    THEN [raised |-> "ValueError: Could not find headword", value |-> None]
    ELSE IF p.meaning = None
    THEN [raised |-> "ValueError: Could not find meanings section",
          value |-> None]
    ELSE [raised |-> "", value |-> Some(build_entry(p, p.meaning[1]))]

-----------------------------------------------------------------------------
(* etymology_entry.py.                                                     *)
(* The etymology tab is [section], the Optional section of id "etymology": *)
(* [summary, full].  summary is the Optional etymology-summary div         *)
(* [text_div, strings]: text_div the Optional first div inside it, given   *)
(* by its text nodes, strings every text node of the summary div in        *)
(* document order as [text, languages, forms], the two lists being the     *)
(* texts of the language-name and foreign-form spans inside the text       *)
(* node's parent element.  full is the Optional div of id                  *)
(* "main_etymology_complete", given by its text nodes.                     *)

Etymon == <<"E", "t", "y", "m", "o", "n">>

\* needle in s, for str
Contains(s, needle) ==
    \E k \in 0..(Len(s) - Len(needle)) :
        SubSeq(s, k + 1, k + Len(needle)) = needle

\* separator.join(pieces)
RECURSIVE Join(_, _)
Join(pieces, separator) ==
    IF pieces = <<>> THEN <<>>
    ELSE IF Len(pieces) = 1 THEN pieces[1]
    ELSE pieces[1] \o separator \o Join(Tail(pieces), separator)

\* [p.strip() for p in pieces if p.strip()]
RECURSIVE StrippedPieces(_)
StrippedPieces(pieces) ==
    IF pieces = <<>> THEN <<>>
    ELSE (IF Strip(Head(pieces)) = <<>> THEN <<>> ELSE <<Strip(Head(pieces))>>)
             \o StrippedPieces(Tail(pieces))

\* Tag.get_text(separator, strip=True) of an element given by its text nodes
GetText(text_nodes, separator) == Join(StrippedPieces(text_nodes), separator)

\* a pairing up to the longer list, the shorter one filled up with ""
ZipLongest(languages, forms) ==
    [k \in 1..(IF Len(languages) < Len(forms) THEN Len(forms)
               ELSE Len(languages)) |->
        <<IF k <= Len(languages) THEN GetText(<<languages[k]>>, <<>>) ELSE <<>>,
          IF k <= Len(forms) THEN GetText(<<forms[k]>>, <<>>) ELSE <<>>>>]

\* zip(languages, forms): pairs up to the shorter list
Zip(languages, forms) ==
    [k \in 1..(IF Len(languages) < Len(forms) THEN Len(languages)
               ELSE Len(forms)) |->
        <<GetText(<<languages[k]>>, <<>>), GetText(<<forms[k]>>, <<>>)>>]

\* EtymologyEntry._extract_etymons
extract_etymons(summary_div) ==
    LET marked == {k \in DOMAIN summary_div.strings :
                       Contains(summary_div.strings[k].text, Etymon)}
    IN  IF marked = {} THEN <<>>
        ELSE LET first == CHOOSE k \in marked : \A o \in marked : k <= o
                 etymon_element == summary_div.strings[first]
             IN  Zip(etymon_element.languages, etymon_element.forms)

\* the "Show less" button text removed from the end of the full etymology
TrimShowLess(full_etymology) ==
    IF EndsWith(full_etymology, ShowLess)
    THEN Strip(SubSeq(full_etymology, 1, Len(full_etymology) - Len(ShowLess)))
    ELSE full_etymology

\* EtymologyEntry.from_html after every anchor was found
build_etymology(summary_div, summary_text_div, etymology_div) ==
    [etymology_summary |-> GetText(summary_text_div, <<>>),
     etymons |-> extract_etymons(summary_div),
     full_etymology |-> TrimShowLess(GetText(etymology_div, <<" ">>))]

\* a from_html that takes a missing summary text div for an empty summary
etymology_from_html_lenient(p) ==
    IF p.section = None
    THEN [raised |-> "ValueError: Could not find etymology section",
          value |-> None]
    ELSE IF p.section[1].summary = None
    THEN [raised |-> "ValueError: Could not find etymology summary",
          value |-> None]
    ELSE IF p.section[1].full = None
    THEN [raised |-> "ValueError: Could not find main etymology",
          value |-> None]
    ELSE [raised |-> "",
          value |-> Some(build_etymology(p.section[1].summary[1],
                             IF p.section[1].summary[1].text_div = None
                             THEN <<>>
                             ELSE p.section[1].summary[1].text_div[1],
                             p.section[1].full[1]))]

\* EtymologyEntry.from_html: the exception raised ("" for none), the value
etymology_from_html(p) ==
    IF p.section = None
    THEN [raised |-> "ValueError: Could not find etymology section",
          value |-> None]
    ELSE IF p.section[1].summary = None
    THEN [raised |-> "ValueError: Could not find etymology summary",
          value |-> None]
    ELSE IF p.section[1].summary[1].text_div = None
    THEN [raised |-> "ValueError: Could not find etymology summary text",
          value |-> None]
    ELSE IF p.section[1].full = None
    THEN [raised |-> "ValueError: Could not find main etymology",
          value |-> None]
    ELSE [raised |-> "",
          value |-> Some(build_etymology(p.section[1].summary[1],
                             p.section[1].summary[1].text_div[1],
                             p.section[1].full[1]))]

-----------------------------------------------------------------------------
(* email_sender.py and EtymologyEntry.format_for_email.                    *)
(* A literal of an f-string is one element of the str it is part of; no    *)
(* literal holds a line break except where NL is written.                  *)

\* the loop appending language: word_form and a line break per etymon
RECURSIVE EtymonLines(_)
EtymonLines(etymons) ==
    IF etymons = <<>> THEN <<>>
    ELSE Head(etymons)[1] \o <<": ">> \o Head(etymons)[2] \o <<NL>>
             \o EtymonLines(Tail(etymons))

\* EtymologyEntry.format_for_email
format_for_email(self) ==
    <<"ETYMOLOGY SUMMARY:", NL>> \o self.etymology_summary
        \o (IF self.etymons # <<>>
            THEN <<"ETYMONS:", NL>> \o EtymonLines(self.etymons) \o <<NL>>
            ELSE <<>>)
        \o <<"FULL ETYMOLOGY:", NL>> \o self.full_etymology \o <<NL>>

\* the items appended for the examples of one definition
RECURSIVE ExampleItems(_)
ExampleItems(examples) ==
    IF examples = <<>> THEN <<>>
    ELSE << <<"(">> \o Head(examples)[1] \o <<"):">>,
            <<"\"">> \o Head(examples)[2] \o <<"\"">>,
            <<"- ">> \o Head(examples)[3] \o <<NL>> >>
             \o ExampleItems(Tail(examples))

\* the items appended for the definitions
RECURSIVE DefinitionItems(_)
DefinitionItems(definitions) ==
    IF definitions = <<>> THEN <<>>
    ELSE LET defn == Head(definitions)
         IN  << <<NL>> \o defn.sense_number \o <<" ">> \o defn.definition_text >>
                 \o (IF defn.examples # <<>>
                     THEN << <<NL, "Examples:">> >> \o ExampleItems(defn.examples)
                     ELSE <<>>)
                 \o DefinitionItems(Tail(definitions))

\* the list email_body before the etymology is appended
BodyItems(entry) ==
    << <<"Word of the Day: ">> \o entry.word, <<>>, <<"DEFINITIONS:">> >>
        \o DefinitionItems(entry.definitions)

\* a formatter that leaves the etymology block out when given None
format_word_entry_email_optional(entry, etymology) ==
    IF etymology = None
    THEN [raised |-> "", value |-> Some(Join(BodyItems(entry[1]), <<NL>>))]
    ELSE [raised |-> "",
          value |-> Some(Join(Append(BodyItems(entry[1]),
                                     format_for_email(etymology[1])), <<NL>>))]

\* format_word_entry_email, given Optional arguments: None has no
\* format_for_email
format_word_entry_email(entry, etymology) ==
    IF etymology = None
    THEN [raised |-> "AttributeError: 'NoneType' object has no attribute 'format_for_email'",
          value |-> None]
    ELSE [raised |-> "",
          value |-> Some(Join(Append(BodyItems(entry[1]),
                                     format_for_email(etymology[1])), <<NL>>))]

-----------------------------------------------------------------------------
(* The entry pages WordEntry.from_html is applied to *)

MaxSenses == 2

HeadwordTexts ==
    {<<"a", "b", Sup1>>, <<"a", "-", "'", "1">>, <<"1", " ">>, <<>>}

BlurbTexts == {<<"<", " ", "a">> \o ShowLess, <<"a">>}

DefinitionTexts == {<<" ">>, <<"a">>, <<"b">>, <<"b", "a">>, <<"a", " ">>}

DateTexts ==
    {<<"1", "-">>, <<"1", "-", "2">>, <<"1", EnDash, "2">>, <<"1">>,
     <<"1", "-", "2", "-", "3">>, <<" ", "1", "-", " ">>, <<" ">>}

Optional(S) == {None} \cup {Some(x) : x \in S}

\* sense elements whose definition varies
DefSenses ==
    [parent : 0..(MaxSenses - 1), enum : {None}, def : Optional(DefinitionTexts),
     date : Optional({<<"1", "-">>}), quotes : {<<>>}, tags : {None}]

\* sense elements whose date range varies
DateSenses ==
    [parent : 0..(MaxSenses - 1), enum : {None}, def : Optional({<<"a">>, <<"b">>}),
     date : Optional(DateTexts), quotes : {<<>>}, tags : {None}]

\* parent pointers of a depth-first listing: the parent of element i is 0 or
\* lies on the path from element i - 1 to the root
PreOrder(senses) ==
    \A i \in DOMAIN senses :
        \/ senses[i].parent = 0
        \/ /\ 0 < senses[i].parent
           /\ senses[i].parent < i
           /\ Within(senses, i - 1, senses[i].parent)

Sections(S) ==
    {senses \in UNION {[1..n -> S] : n \in 0..MaxSenses} : PreOrder(senses)}

\* a sense element with a definition and nothing else
PlainSense ==
    [parent |-> 0, enum |-> None, def |-> Some(<<"a">>), date |-> None,
     quotes |-> <<>>, tags |-> None]

\* the pages: one family varies the headword, one the etymology blurb and
\* the definitions, one the date ranges
Pages ==
    [headword : Optional(HeadwordTexts), etymology : {None},
     meaning : Optional({<<>>, <<PlainSense>>})]
    \cup
    [headword : {Some(<<"a", "b", Sup1>>)}, etymology : Optional(BlurbTexts),
     meaning : Optional(Sections(DefSenses))]
    \cup
    [headword : Optional({<<"a", "b">>}), etymology : {None},
     meaning : Optional(Sections(DateSenses))]

-----------------------------------------------------------------------------
(* WordEntry.from_html applied to one page *)

Init ==
    /\ page \in Pages
    /\ etym_page = None
    /\ word_entry = None
    /\ etymology_entry = None
    /\ email_body = None
    /\ error = ""
    /\ pc = "from_html"
    /\ config = None
    /\ calls = <<>>
    /\ result = None
    /\ url = None

WordEntryReturns ==
    /\ pc = "from_html"
    /\ from_html(page).raised = ""
    /\ word_entry' = from_html(page).value
    /\ pc' = "returned"
    /\ UNCHANGED <<page, etym_page, etymology_entry, email_body, error,
                   config, calls, result, url>>

WordEntryRaises ==
    /\ pc = "from_html"
    /\ from_html(page).raised # ""
    /\ error' = from_html(page).raised
    /\ pc' = "raised"
    /\ UNCHANGED <<page, etym_page, word_entry, etymology_entry, email_body,
                   config, calls, result, url>>

Next == WordEntryReturns \/ WordEntryRaises

Spec == Init /\ [][Next]_vars

-----------------------------------------------------------------------------
(* WordEntry.from_html applied to pages whose quotations vary *)

MaxQuotes == 2

\* quotation items: two complete ones, and one for each missing part
QuotationItems ==
    {[date |-> Some(<<"1">>), text |-> Some(<<" ", "a">>), cite |-> Some(<<"b">>)],
     [date |-> Some(<<"2">>), text |-> Some(<<"b">>), cite |-> Some(<<"a", " ">>)],
     [date |-> None, text |-> Some(<<"a">>), cite |-> Some(<<"b">>)],
     [date |-> Some(<<"1">>), text |-> None, cite |-> Some(<<"b">>)],
     [date |-> Some(<<"1">>), text |-> Some(<<"a">>), cite |-> None]}

QuoteSenses ==
    [parent : {0, 1}, enum : {None}, def : {Some(<<"a">>), Some(<<"b">>)},
     date : {None},
     quotes : UNION {[1..n -> QuotationItems] : n \in 0..MaxQuotes},
     tags : {None}]

\* one sense element, or two: side by side or the second inside the first
QuoteSections ==
    {senses \in [1..1 -> QuoteSenses] \cup [1..2 -> QuoteSenses] :
         PreOrder(senses)}

QuotePages ==
    [headword : {Some(<<"a", "b">>)}, etymology : {None},
     meaning : Optional(QuoteSections)]

InitExamples ==
    /\ page \in QuotePages
    /\ etym_page = None
    /\ word_entry = None
    /\ etymology_entry = None
    /\ email_body = None
    /\ error = ""
    /\ pc = "from_html"
    /\ config = None
    /\ calls = <<>>
    /\ result = None
    /\ url = None

SpecExamples == InitExamples /\ [][Next]_vars

-----------------------------------------------------------------------------
(* WordEntry.from_html applied to pages whose headword varies *)

MaxChars == 3

HeadwordChars == {"a", "S", "-", "'", "1", Sup1, " "}

HeadwordPages ==
    [headword : Optional(UNION {[1..n -> HeadwordChars] : n \in 0..MaxChars}),
     etymology : {None}, meaning : {Some(<<PlainSense>>)}]

InitHeadword ==
    /\ page \in HeadwordPages
    /\ etym_page = None
    /\ word_entry = None
    /\ etymology_entry = None
    /\ email_body = None
    /\ error = ""
    /\ pc = "from_html"
    /\ config = None
    /\ calls = <<>>
    /\ result = None
    /\ url = None

SpecHeadword == InitHeadword /\ [][Next]_vars

-----------------------------------------------------------------------------
(* EtymologyEntry.from_html applied to one etymology tab *)

MaxStrings == 2

MaxSpans == 2

LanguageNames == << <<"a">>, <<"b">>, <<" ", "a", "b">>, <<"b", "a">> >>

WordForms == << <<"1">>, <<"2">>, <<"3", " ">>, <<"1", "2">> >>

Prefixes(names) == {SubSeq(names, 1, n) : n \in 0..MaxSpans}

TextNodes ==
    [text : {<<"a">>, Etymon \o <<":">>}, languages : Prefixes(LanguageNames),
     forms : Prefixes(WordForms)]

SummaryDivs ==
    [text_div : Optional({<<<<"a">>>>, <<<<" ", "a">>, <<"b", " ">>>>}),
     strings : UNION {[1..n -> TextNodes] : n \in 0..MaxStrings}]

EtymologySections ==
    [summary : Optional(SummaryDivs),
     full : Optional({<<<<"a">>>>, <<<<"a", " ">>, <<"b">>, ShowLess>>})]

EtymologyPages == [section : Optional(EtymologySections)]

InitEtym ==
    /\ page = None
    /\ etym_page \in EtymologyPages
    /\ word_entry = None
    /\ etymology_entry = None
    /\ email_body = None
    /\ error = ""
    /\ pc = "etymology_from_html"
    /\ config = None
    /\ calls = <<>>
    /\ result = None
    /\ url = None

EtymologyReturns ==
    /\ pc = "etymology_from_html"
    /\ etymology_from_html(etym_page).raised = ""
    /\ etymology_entry' = etymology_from_html(etym_page).value
    /\ pc' = "returned"
    /\ UNCHANGED <<page, etym_page, word_entry, email_body, error,
                   config, calls, result, url>>

EtymologyRaises ==
    /\ pc = "etymology_from_html"
    /\ etymology_from_html(etym_page).raised # ""
    /\ error' = etymology_from_html(etym_page).raised
    /\ pc' = "raised"
    /\ UNCHANGED <<page, etym_page, word_entry, etymology_entry, email_body,
                   config, calls, result, url>>

NextEtym == EtymologyReturns \/ EtymologyRaises

SpecEtym == InitEtym /\ [][NextEtym]_vars

-----------------------------------------------------------------------------
(* format_word_entry_email applied to a WordEntry and an Optional          *)
(* EtymologyEntry                                                          *)

MaxDefinitions == 2

MaxExamples == 2

MaxEtymons == 2

SeqsUpTo(S, n) == UNION {[1..k -> S] : k \in 0..n}

SomeExamples == {<<<<"1">>, <<"a">>, <<"b">>>>}

SomeDefinitions ==
    [sense_number : {<<>>, <<"1", ".">>}, definition_text : {<<"a">>, <<"b">>},
     date_range : {None}, examples : SeqsUpTo(SomeExamples, MaxExamples),
     subject_tags : {<<>>}]

WordEntries ==
    [word : {<<"a", "b">>},
     definitions : SeqsUpTo(SomeDefinitions, MaxDefinitions),
     etymology : {<<>>}]

EtymologyEntries ==
    [etymology_summary : {<<"a">>},
     etymons : SeqsUpTo({<<<<"a">>, <<"1">>>>}, MaxEtymons),
     full_etymology : {<<"b">>, <<"b", " ", "a">>}]

InitEmail ==
    /\ page = None
    /\ etym_page = None
    /\ word_entry \in {Some(e) : e \in WordEntries}
    /\ etymology_entry \in Optional(EtymologyEntries)
    /\ email_body = None
    /\ error = ""
    /\ pc = "format_word_entry_email"
    /\ config = None
    /\ calls = <<>>
    /\ result = None
    /\ url = None

FormatReturns ==
    /\ pc = "format_word_entry_email"
    /\ format_word_entry_email(word_entry, etymology_entry).raised = ""
    /\ email_body' = format_word_entry_email(word_entry, etymology_entry).value
    /\ pc' = "returned"
    /\ UNCHANGED <<page, etym_page, word_entry, etymology_entry, error,
                   config, calls, result, url>>

FormatRaises ==
    /\ pc = "format_word_entry_email"
    /\ format_word_entry_email(word_entry, etymology_entry).raised # ""
    /\ error' = format_word_entry_email(word_entry, etymology_entry).raised
    /\ pc' = "raised"
    /\ UNCHANGED <<page, etym_page, word_entry, etymology_entry, email_body,
                   config, calls, result, url>>

NextEmail == FormatReturns \/ FormatRaises

SpecEmail == InitEmail /\ [][NextEmail]_vars

-----------------------------------------------------------------------------
(* send_word_email, one step of the SMTP session at a time.                *)
(* A call to a collaborator is recorded as [op, args, raised]: raised is   *)
(* the exception the call ended with, "" when it returned.  logging is not *)
(* recorded.                                                               *)

Call(op, args, raised) == [op |-> op, args |-> args, raised |-> raised]

\* the calls of the with block, in the order of the source
Steps == <<"SMTP", "starttls", "login", "send_message">>

\* MIMEText(email_body) with its Subject, From and To headers
Message(entry, body, cfg) ==
    [Subject |-> <<"Word of the Day: ">> \o entry.word,
     From |-> cfg.sender_email,
     To |-> Join(cfg.recipient_list, <<",", " ">>),
     payload |-> body]

\* the arguments send_word_email passes to a step
Arguments(step) ==
    IF step = "SMTP" THEN <<config[1].smtp_server, config[1].smtp_port>>
    ELSE IF step = "login"
    THEN <<config[1].sender_email, config[1].sender_password>>
    ELSE IF step = "send_message"
    THEN <<Message(word_entry[1], email_body[1], config[1])>>
    ELSE <<>>

\* where control goes when a step returns: the next statement of the with
\* block, the exit of the block after the last
Following(step) ==
    IF step = "SMTP" THEN "starttls"
    ELSE IF step = "starttls" THEN "login"
    ELSE IF step = "login" THEN "send_message"
    ELSE "exit"

\* a sender that starts the step again when it raised
AfterRaiseRetries(step) == step

\* where control goes when a step raises: out of the with block, through
\* SMTP.__exit__ when the session had been opened
AfterRaise(step) == IF step = "SMTP" THEN "raised" ELSE "exit"

SenderConfigs ==
    [smtp_server : {<<"a">>, <<"b">>}, smtp_port : {25, 587},
     sender_email : {<<"s">>}, sender_password : {<<"p">>},
     recipient_list : {<< <<"r">> >>, << <<"r">>, <<"q">> >>}]

SentWordEntries ==
    [word : {<<"a", "b">>},
     definitions : {<<[sense_number |-> <<"1", ".">>, definition_text |-> <<"a">>,
                       date_range |-> None, examples |-> <<>>,
                       subject_tags |-> <<>>]>>},
     etymology : {<<>>}]

SentEtymologyEntries ==
    [etymology_summary : {<<"a">>}, etymons : {<<>>},
     full_etymology : {<<"b">>}]

InitSend ==
    /\ page = None
    /\ etym_page = None
    /\ word_entry \in {Some(e) : e \in SentWordEntries}
    /\ etymology_entry \in {Some(e) : e \in SentEtymologyEntries}
    /\ email_body = None
    /\ error = ""
    /\ pc = "send_word_email"
    /\ config \in {Some(c) : c \in SenderConfigs}
    /\ calls = <<>>
    /\ result = None
    /\ url = None

\* email_body = format_word_entry_email(...), then the message is built
SendFormats ==
    /\ pc = "send_word_email"
    /\ LET r == format_word_entry_email(word_entry, etymology_entry)
       IN  /\ r.raised = ""
           /\ email_body' = r.value
    /\ pc' = "SMTP"
    /\ UNCHANGED <<page, etym_page, word_entry, etymology_entry, error,
                   config, calls, result, url>>

\* the step under way returns
StepReturns ==
    /\ \E k \in DOMAIN Steps : pc = Steps[k]
    /\ calls' = Append(calls, Call(pc, Arguments(pc), ""))
    /\ pc' = Following(pc)
    /\ UNCHANGED <<page, etym_page, word_entry, etymology_entry, email_body,
                   error, config, result, url>>

\* the step under way raises, smtplib.SMTPException or an OSError of the
\* socket
StepRaises ==
    /\ \E k \in DOMAIN Steps : pc = Steps[k]
    /\ \E e \in {"SMTPException", "OSError"} :
           /\ calls' = Append(calls, Call(pc, Arguments(pc), e))
           /\ error' = e
    /\ pc' = AfterRaise(pc)
    /\ UNCHANGED <<page, etym_page, word_entry, etymology_entry, email_body,
                   config, result, url>>

\* SMTP.__exit__ sends QUIT and closes; the call returns when no error is
\* pending and QUIT went through
ExitReturns ==
    /\ pc = "exit"
    /\ error = ""
    /\ calls' = Append(calls, Call("quit", <<>>, ""))
    /\ pc' = "returned"
    /\ UNCHANGED <<page, etym_page, word_entry, etymology_entry, email_body,
                   error, config, result, url>>

\* the pending error, or the one QUIT raised, leaves send_word_email (an
\* SMTPException is logged on the way)
ExitRaises ==
    /\ pc = "exit"
    /\ \E e \in {"", "SMTPException"} :
           /\ error = "" => e # ""
           /\ calls' = Append(calls, Call("quit", <<>>, e))
           /\ error' = IF e = "" THEN error ELSE e
    /\ pc' = "raised"
    /\ UNCHANGED <<page, etym_page, word_entry, etymology_entry, email_body,
                   config, result, url>>

NextSend ==
    SendFormats \/ StepReturns \/ StepRaises \/ ExitReturns \/ ExitRaises

SpecSend == InitSend /\ [][NextSend]_vars

-----------------------------------------------------------------------------
(* scraping_functions.py.                                                  *)
(* A page is a str in which each of the four markers extract_wotd_href     *)
(* searches for is one element.  What requests answers to a GET is         *)
(* [error, text]: error names the requests.RequestException of a failed    *)
(* request (raised by requests.get or by raise_for_status), "" for none.   *)

WotdDiv == "<div class=\"wotd\">"

EndDiv == "</div>"

Href == "<a href=\""

Quote == "\""

OED_HOMEPAGE == <<"https://www.oed.com", "/">>

\* s.rstrip("/")
RECURSIVE RStripSlash(_)
RStripSlash(s) ==
    IF s # <<>> /\ s[Len(s)] = "/" THEN RStripSlash(SubSeq(s, 1, Len(s) - 1))
    ELSE s

\* text.find(marker, start) for a marker of one element, positions counted
\* from 1: 0 when the marker is not found
StrFind(text, marker, start) ==
    LET found == {k \in start..Len(text) : text[k] = marker}
    IN  IF found = {} THEN 0 ELSE CHOOSE k \in found : \A o \in found : k <= o

extract_between(text, start, end, error_msg) ==
    LET start_idx == StrFind(text, start, 1)
        content_start == start_idx + 1
        end_idx == StrFind(text, end, content_start)
    IN  IF start_idx = 0 THEN [raised |-> error_msg, value |-> None]
        ELSE IF end_idx = 0 THEN [raised |-> error_msg, value |-> None]
        ELSE [raised |-> "", value |-> Some(SubSeq(text, content_start, end_idx - 1))]

extract_wotd_href(html) ==
    LET div == extract_between(html, WotdDiv, EndDiv, "WOTD section not found")
    IN  IF div.raised # "" THEN <<>>
        ELSE LET href == extract_between(Strip(div.value[1]), Href, Quote,
                                         "WOTD link not found")
             IN  IF href.raised # "" THEN <<>> ELSE href.value[1]

fetch_url(response) ==
    IF response.error # "" THEN [raised |-> response.error, value |-> None]
    ELSE [raised |-> "", value |-> Some(response.text)]

\* a lookup that lets the error of the fetch through
get_word_of_the_day_url_uncaught(response) ==
    LET homepage_html == fetch_url(response)
    IN  IF homepage_html.raised # "" THEN homepage_html
        ELSE LET wotd_path == extract_wotd_href(homepage_html.value[1])
             IN  [raised |-> "",
                  value |-> IF wotd_path # <<>>
                            THEN Some(RStripSlash(OED_HOMEPAGE) \o wotd_path)
                            ELSE None]

\* the response is the one fetch_url(OED_HOMEPAGE) meets
get_word_of_the_day_url(response) ==
    LET homepage_html == fetch_url(response)
    IN  IF homepage_html.raised # "" THEN [raised |-> "", value |-> None]
        ELSE LET wotd_path == extract_wotd_href(homepage_html.value[1])
             IN  [raised |-> "",
                  value |-> IF wotd_path # <<>>
                            THEN Some(RStripSlash(OED_HOMEPAGE) \o wotd_path)
                            ELSE None]

-----------------------------------------------------------------------------
(* fetch_url and get_word_of_the_day_url, each called once *)

MaxTokens == 5

Tokens == {WotdDiv, EndDiv, Href, Quote, "/", "w"}

HomePages == UNION {[1..n -> Tokens] : n \in 0..MaxTokens}

TransportErrors == {"ConnectionError", "HTTPError"}

Responses(pages) ==
    [error : TransportErrors, text : {<<>>}] \cup [error : {""}, text : pages]

Urls == {OED_HOMEPAGE, OED_HOMEPAGE \o <<"w">>}

\* url is None for get_word_of_the_day_url, which takes no argument
InitFetch ==
    /\ page = None
    /\ etym_page = None
    /\ word_entry = None
    /\ etymology_entry = None
    /\ email_body = None
    /\ error = ""
    /\ config = None
    /\ calls = <<>>
    /\ result = None
    /\ \/ pc = "fetch_url" /\ url \in {Some(u) : u \in Urls}
       \/ pc = "get_word_of_the_day_url" /\ url = None

FetchUrlReturns ==
    /\ pc = "fetch_url"
    /\ \E response \in Responses(HomePages) :
           /\ fetch_url(response).raised = ""
           /\ calls' = Append(calls, Call("GET", <<url[1]>>, response.error))
           /\ result' = fetch_url(response).value
    /\ pc' = "returned"
    /\ UNCHANGED <<page, etym_page, word_entry, etymology_entry, email_body,
                   error, config, url>>

FetchUrlRaises ==
    /\ pc = "fetch_url"
    /\ \E response \in Responses(HomePages) :
           /\ fetch_url(response).raised # ""
           /\ calls' = Append(calls, Call("GET", <<url[1]>>, response.error))
           /\ error' = fetch_url(response).raised
    /\ pc' = "raised"
    /\ UNCHANGED <<page, etym_page, word_entry, etymology_entry, email_body,
                   config, result, url>>

GetWordOfTheDayUrl ==
    /\ pc = "get_word_of_the_day_url"
    /\ \E response \in Responses(HomePages) :
           LET r == get_word_of_the_day_url(response)
           IN  /\ calls' = Append(calls, Call("GET", <<OED_HOMEPAGE>>, response.error))
               /\ result' = r.value
               /\ error' = r.raised
               /\ pc' = IF r.raised = "" THEN "returned" ELSE "raised"
    /\ UNCHANGED <<page, etym_page, word_entry, etymology_entry, email_body,
                   config, url>>

NextFetch == FetchUrlReturns \/ FetchUrlRaises \/ GetWordOfTheDayUrl

SpecFetch == InitFetch /\ [][NextFetch]_vars

-----------------------------------------------------------------------------
(* scrape_and_print.py: one run of main, step by step.                     *)
(* The module has its own copies of fetch_url and extract_wotd_href, the   *)
(* same as those of scraping_functions.py; an exception main catches is    *)
(* logged and the run returns.                                             *)

\* get_word_of_the_day_url of scrape_and_print.py: "" when no URL is found
\* and when the fetch or the extraction raised
scrape_and_print_get_word_of_the_day_url(response) ==
    LET homepage_html == fetch_url(response)
    IN  IF homepage_html.raised # "" THEN <<>>
        ELSE LET wotd_path == extract_wotd_href(homepage_html.value[1])
             IN  IF wotd_path # <<>> THEN RStripSlash(OED_HOMEPAGE) \o wotd_path
                 ELSE <<>>

\* a run that fetches again when the fetch of the entry page raised
MainAfterRetriesFetch(step, raised) ==
    IF step = "fetch_url" /\ raised # "" THEN "fetch_url"
    ELSE IF raised # "" THEN "returned"
    ELSE IF step = "fetch_url" THEN "from_html"
    ELSE IF step = "from_html" THEN "print_summary"
    ELSE IF step = "print_summary" THEN "open"
    ELSE IF step = "open" THEN "write"
    ELSE "returned"

\* where main goes after a statement of the try block: to the next one, or,
\* through the except clause, to its end when the statement raised
MainAfter(step, raised) ==
    IF raised # "" THEN "returned"
    ELSE IF step = "fetch_url" THEN "from_html"
    ELSE IF step = "from_html" THEN "print_summary"
    ELSE IF step = "print_summary" THEN "open"
    ELSE IF step = "open" THEN "write"
    ELSE "returned"

\* f"wotd_response_{word_entry.word}.html" in the files directory
FileName(entry) == <<"wotd_response_">> \o entry.word \o <<".html">>

MainHomePages ==
    {<<>>, <<WotdDiv, Href, Quote, EndDiv>>,
     <<WotdDiv, Href, "/", "w", Quote, EndDiv>>,
     <<"w", WotdDiv, Href, "/", Quote, "w", EndDiv>>}

MainEntryPages ==
    [headword : Optional(HeadwordTexts), etymology : {None},
     meaning : Optional({<<>>, <<PlainSense>>})]

InitMain ==
    /\ page = None
    /\ etym_page = None
    /\ word_entry = None
    /\ etymology_entry = None
    /\ email_body = None
    /\ error = ""
    /\ pc = "main"
    /\ config = None
    /\ calls = <<>>
    /\ result = None
    /\ url = None

\* wotd_url = get_word_of_the_day_url() gave a URL
MainFindsUrl ==
    /\ pc = "main"
    /\ \E response \in Responses(MainHomePages) :
           LET wotd_url == scrape_and_print_get_word_of_the_day_url(response)
           IN  /\ wotd_url # <<>>
               /\ calls' = Append(calls, Call("GET", <<OED_HOMEPAGE>>, response.error))
               /\ url' = Some(wotd_url)
    /\ pc' = "fetch_url"
    /\ UNCHANGED <<page, etym_page, word_entry, etymology_entry, email_body,
                   error, config, result>>

\* it gave "": main logs that and returns
MainFindsNoUrl ==
    /\ pc = "main"
    /\ \E response \in Responses(MainHomePages) :
           LET wotd_url == scrape_and_print_get_word_of_the_day_url(response)
           IN  /\ wotd_url = <<>>
               /\ calls' = Append(calls, Call("GET", <<OED_HOMEPAGE>>, response.error))
               /\ url' = Some(wotd_url)
    /\ pc' = "returned"
    /\ UNCHANGED <<page, etym_page, word_entry, etymology_entry, email_body,
                   error, config, result>>

\* wotd_html = fetch_url(url=wotd_url)
MainFetches ==
    /\ pc = "fetch_url"
    /\ \E response \in Responses(MainEntryPages) :
           LET wotd_html == fetch_url(response)
           IN  /\ calls' = Append(calls, Call("GET", <<url[1]>>, response.error))
               /\ page' = IF wotd_html.raised = "" THEN wotd_html.value[1] ELSE page
               /\ pc' = MainAfter("fetch_url", wotd_html.raised)
    /\ UNCHANGED <<etym_page, word_entry, etymology_entry, email_body, error,
                   config, result, url>>

\* word_entry = WordEntry.from_html(wotd_html)
MainExtracts ==
    /\ pc = "from_html"
    /\ word_entry' = from_html(page).value
    /\ pc' = MainAfter("from_html", from_html(page).raised)
    /\ UNCHANGED <<page, etym_page, etymology_entry, email_body, error,
                   config, calls, result, url>>

\* word_entry.print_summary()
MainPrints ==
    /\ pc = "print_summary"
    /\ calls' = Append(calls, Call("print_summary", <<word_entry[1]>>, ""))
    /\ pc' = MainAfter("print_summary", "")
    /\ UNCHANGED <<page, etym_page, word_entry, etymology_entry, email_body,
                   error, config, result, url>>

\* open(..., "w") creates the file or raises
MainOpens ==
    /\ pc = "open"
    /\ \E e \in {"", "OSError"} :
           /\ calls' = Append(calls, Call("open", <<FileName(word_entry[1])>>, e))
           /\ pc' = MainAfter("open", e)
    /\ UNCHANGED <<page, etym_page, word_entry, etymology_entry, email_body,
                   error, config, result, url>>

\* file.write(wotd_html)
MainWrites ==
    /\ pc = "write"
    /\ \E e \in {"", "OSError"} :
           /\ calls' = Append(calls, Call("write", <<page>>, e))
           /\ pc' = MainAfter("write", e)
    /\ UNCHANGED <<page, etym_page, word_entry, etymology_entry, email_body,
                   error, config, result, url>>

NextMain ==
    \/ MainFindsUrl
    \/ MainFindsNoUrl
    \/ MainFetches
    \/ MainExtracts
    \/ MainPrints
    \/ MainOpens
    \/ MainWrites

SpecMain == InitMain /\ [][NextMain]_vars

-----------------------------------------------------------------------------
(* Properties of WordEntry.from_html *)

Returned == pc = "returned"

Entry == word_entry[1]

SenseNodes == IF page.meaning = None THEN <<>> ELSE page.meaning[1]

\* the sense elements in which a definition element is found
WithDefinition ==
    {i \in DOMAIN SenseNodes : Find(SenseNodes, i, "def") # None}

\* the stripped text of the definition element found in sense element i
TextOf(i) == Strip(Find(SenseNodes, i, "def")[1])

\* the first sense element, in document order, that carries the text
FirstSense(text) ==
    CHOOSE i \in WithDefinition :
        /\ TextOf(i) = text
        /\ \A j \in WithDefinition : TextOf(j) = text => i <= j

\* every definition element of the page carries non-blank text
NoBlankDefinition ==
    \A i \in DOMAIN SenseNodes :
        SenseNodes[i].def # None => Strip(SenseNodes[i].def[1]) # <<>>

\* C1 (as claimed, on pages without blank definition text): the definitions
\* returned are in document (first-seen) order of their sense nodes, not
\* reordered by the definition text.
C1_DocumentOrder ==
    (Returned /\ NoBlankDefinition) =>
        \A a, b \in DOMAIN Entry.definitions :
            a < b => FirstSense(Entry.definitions[a].definition_text)
                         < FirstSense(Entry.definitions[b].definition_text)

\* C1 (amended): the definitions returned are in strictly ascending
\* lexicographic (code point) order of their definition text.
C1_SortedByText ==
    Returned =>
        \A a, b \in DOMAIN Entry.definitions :
            a < b => StrLess(Entry.definitions[a].definition_text,
                             Entry.definitions[b].definition_text)

\* a page returned with two definitions whose document order is not their
\* order in the result
C1_Witness ==
    /\ Returned
    /\ \E a, b \in DOMAIN Entry.definitions :
           /\ a < b
           /\ FirstSense(Entry.definitions[a].definition_text)
                  > FirstSense(Entry.definitions[b].definition_text)

\* C2: once from_html has ended on a page without headword element, or
\* without meaning_and_use section, it has raised the extraction error and
\* returned no WordEntry, whatever else the page holds.
C2_MissingAnchorRaises ==
    (pc # "from_html" /\ (page.headword = None \/ page.meaning = None)) =>
        /\ pc = "raised"
        /\ word_entry = None
        /\ error = (IF page.headword = None
                    THEN "ValueError: Could not find headword"
                    ELSE "ValueError: Could not find meanings section")

\* from_html has raised on a page with a headword and no meanings section
C2_Witness ==
    /\ pc = "raised"
    /\ page.headword # None
    /\ page.meaning = None

\* from_html has raised on a page with a meanings section and no headword
C2_WitnessNoHeadword ==
    /\ pc = "raised"
    /\ page.headword = None
    /\ page.meaning # None

\* C4 (as claimed): every WordEntry returned has a non-empty word.
C4_WordNonEmpty == Returned => Entry.word # <<>>

\* C5 (as claimed): every Definition returned has a non-empty
\* definition_text.
C5_DefinitionTextNonEmpty ==
    Returned =>
        \A k \in DOMAIN Entry.definitions :
            Entry.definitions[k].definition_text # <<>>

\* C6 (as claimed, on pages without blank definition text): the number of
\* definitions returned is the number of sense nodes exposing non-empty
\* definition text, whether "exposing" is read as a definition element of
\* the node's own or one found inside it.
C6_CountOfSenseNodes ==
    (Returned /\ NoBlankDefinition) =>
        \/ Len(Entry.definitions)
               = Cardinality({i \in WithDefinition : TextOf(i) # <<>>})
        \/ Len(Entry.definitions)
               = Cardinality({i \in DOMAIN SenseNodes :
                                  /\ SenseNodes[i].def # None
                                  /\ Strip(SenseNodes[i].def[1]) # <<>>})

\* C6 (amended): the number of definitions returned is the number of
\* distinct stripped definition texts (the empty text included) over the
\* sense nodes in which a definition element is found; a sense node without
\* one contributes nothing.
C6_CountOfDistinctTexts ==
    Returned =>
        Len(Entry.definitions) = Cardinality({TextOf(i) : i \in WithDefinition})

\* a page returned where two sense nodes, neither inside the other, carry
\* the same non-empty definition text
C6_Witness ==
    /\ Returned
    /\ \E i, j \in WithDefinition :
           /\ i # j
           /\ SenseNodes[i].parent = 0
           /\ SenseNodes[j].parent = 0
           /\ TextOf(i) = TextOf(j)
           /\ TextOf(i) # <<>>
    /\ Len(Entry.definitions) = 1

\* the blurb text with a trailing "Show less" and a leading "< " removed
TrimmedBlurb(text) ==
    LET cut == IF EndsWith(Strip(text), ShowLess)
               THEN Strip(SubSeq(Strip(text), 1, Len(Strip(text)) - Len(ShowLess)))
               ELSE Strip(text)
    IN  IF Len(cut) >= 2 /\ SubSeq(cut, 1, 2) = <<"<", " ">>
        THEN SubSeq(cut, 3, Len(cut))
        ELSE cut

\* C9 (as claimed): with an etymology-blurb container on the page,
\* WordEntry.etymology is its trimmed text; it is empty only without one.
C9_EtymologyFromBlurb ==
    Returned =>
        Entry.etymology = (IF page.etymology = None THEN <<>>
                           ELSE TrimmedBlurb(page.etymology[1]))

\* the index of the first hyphen of s, Len(s) + 1 when it has none
FirstHyphen(s) ==
    CHOOSE k \in 1..(Len(s) + 1) :
        /\ k <= Len(s) => s[k] = "-"
        /\ \A j \in 1..(k - 1) : s[j] # "-"

\* C10: the date_range of a definition is absent exactly when no date
\* element is found in its sense node; otherwise it is (start, end) of the
\* stripped text with each en dash replaced by a hyphen: start is the part
\* before the first hyphen, end the part between the first and the second
\* hyphen (to the end when there is no second one), empty without a hyphen.
C10_DateRange ==
    Returned =>
        \A k \in DOMAIN Entry.definitions :
            LET d == Entry.definitions[k]
                date_div == Find(SenseNodes, FirstSense(d.definition_text), "date")
                text == IF date_div = None THEN <<>>
                        ELSE Replace(Strip(date_div[1]), EnDash, "-")
                h == FirstHyphen(text)
                rest == SubSeq(text, h + 1, Len(text))
            IN  /\ d.date_range = None <=> date_div = None
                /\ date_div # None =>
                       /\ d.date_range[1][1] = SubSeq(text, 1, h - 1)
                       /\ d.date_range[1][2]
                              = SubSeq(rest, 1, FirstHyphen(rest) - 1)
                /\ text = <<"1", "-">> => d.date_range = Some(<<<<"1">>, <<>>>>)
                /\ text = <<"1", "-", "2">>
                       => d.date_range = Some(<<<<"1">>, <<"2">>>>)

\* a page returned with one definition dated by an en dash range, one by a
\* range of three segments and one sense without date element
C10_Witness ==
    /\ Returned
    /\ \E k \in DOMAIN Entry.definitions :
           Entry.definitions[k].date_range = None
    /\ \E i \in DOMAIN SenseNodes :
           SenseNodes[i].date \in {Some(<<"1", EnDash, "2">>),
                                   Some(<<"1", "-", "2", "-", "3">>)}
    /\ \E k \in DOMAIN Entry.definitions :
           Entry.definitions[k].date_range = Some(<<<<"1">>, <<"2">>>>)

-----------------------------------------------------------------------------
(* Properties of EtymologyEntry.from_html *)

EtymSection == etym_page.section[1]

\* the error for the first required element the tab lacks, "" when it
\* lacks none
MissingAnchor ==
    IF etym_page.section = None
    THEN "ValueError: Could not find etymology section"
    ELSE IF EtymSection.summary = None
    THEN "ValueError: Could not find etymology summary"
    ELSE IF EtymSection.summary[1].text_div = None
    THEN "ValueError: Could not find etymology summary text"
    ELSE IF EtymSection.full = None
    THEN "ValueError: Could not find main etymology"
    ELSE ""

\* C3: once EtymologyEntry.from_html has ended on a tab that lacks the
\* etymology section, the summary subsection, the first div inside the
\* summary or the full-etymology container, it has raised the extraction
\* error for it and returned no EtymologyEntry; an entry is returned only
\* from a tab that has all four.
C3_MissingAnchorRaises ==
    /\ (pc # "etymology_from_html" /\ MissingAnchor # "") =>
           /\ pc = "raised"
           /\ etymology_entry = None
           /\ error = MissingAnchor
    /\ (pc = "returned" /\ etymology_entry # None) => MissingAnchor = ""

\* from_html has raised on a tab that has the section, the summary
\* subsection and the full-etymology container and lacks only the first div
\* inside the summary
C3_Witness ==
    /\ pc = "raised"
    /\ etym_page.section # None
    /\ EtymSection.summary # None
    /\ EtymSection.full # None
    /\ EtymSection.summary[1].text_div = None
    /\ etymology_entry = None

-----------------------------------------------------------------------------
(* Properties of format_word_entry_email *)

\* the report as lines, once it was returned
BodyLines == Split(email_body[1], NL)

IsLine(line) == \E k \in DOMAIN BodyLines : BodyLines[k] = line

\* C7 (as claimed): the report starts with the Word of the Day line, a
\* blank line and DEFINITIONS:, and in the etymology block ETYMOLOGY
\* SUMMARY:, the summary text, ETYMONS: (when there are etymons), every
\* language: word_form pair and FULL ETYMOLOGY: are each a complete line,
\* in this order.
C7_EtymologyBlockLines ==
    (pc = "returned" /\ email_body # None /\ etymology_entry # None) =>
        LET e == etymology_entry[1]
        IN  /\ BodyLines[1] = <<"Word of the Day: ">> \o word_entry[1].word
            /\ BodyLines[2] = <<>>
            /\ BodyLines[3] = <<"DEFINITIONS:">>
            /\ \E i, j \in DOMAIN BodyLines :
                   /\ i + 1 < j
                   /\ BodyLines[i] = <<"ETYMOLOGY SUMMARY:">>
                   /\ BodyLines[i + 1] = e.etymology_summary
                   /\ BodyLines[j] = <<"FULL ETYMOLOGY:">>
                   /\ e.etymons # <<>> =>
                          /\ BodyLines[i + 2] = <<"ETYMONS:">>
                          /\ \A k \in DOMAIN e.etymons :
                                 BodyLines[i + 2 + k]
                                     = e.etymons[k][1] \o <<": ">> \o e.etymons[k][2]

\* C8 (as claimed): for every well-formed WordEntry the formatter returns
\* a string, with an EtymologyEntry and with none; it never fails.
C8_FormatterTotal ==
    pc # "format_word_entry_email" =>
        /\ pc = "returned"
        /\ email_body # None
        /\ error = ""

\* C8 (amended): for every well-formed WordEntry and every EtymologyEntry
\* supplied, the formatter returns a string that holds the etymology block;
\* given none for the etymology, it fails with an AttributeError and returns
\* no report.
C8_FormatterTotalWithEtymology ==
    pc # "format_word_entry_email" =>
        IF etymology_entry # None
        THEN /\ pc = "returned"
             /\ error = ""
             /\ email_body # None
             /\ Contains(email_body[1], <<"ETYMOLOGY SUMMARY:">>)
             /\ Contains(email_body[1], <<"FULL ETYMOLOGY:">>)
        ELSE /\ pc = "raised"
             /\ email_body = None
             /\ error = "AttributeError: 'NoneType' object has no attribute 'format_for_email'"

\* a report returned for an entry with two definitions, one of them with
\* examples, and an EtymologyEntry with etymons
C8_Witness ==
    /\ pc = "returned"
    /\ email_body # None
    /\ etymology_entry # None
    /\ etymology_entry[1].etymons # <<>>
    /\ Len(word_entry[1].definitions) = 2
    /\ \E k \in DOMAIN word_entry[1].definitions :
           word_entry[1].definitions[k].examples # <<>>

-----------------------------------------------------------------------------
(* Properties of the examples of a Definition *)

\* the quotation items found inside sense element i, in document order
QuotationsOf(i) == FindAllQuotations(SenseNodes, i, 1)

\* the positions in QuotationsOf(i) of the items with all three parts
CompleteIn(i) ==
    {n \in DOMAIN QuotationsOf(i) :
         /\ QuotationsOf(i)[n].date # None
         /\ QuotationsOf(i)[n].text # None
         /\ QuotationsOf(i)[n].cite # None}

\* the position of the m-th complete item
NthComplete(i, m) ==
    CHOOSE n \in CompleteIn(i) :
        Cardinality({o \in CompleteIn(i) : o <= n}) = m

\* C11: the examples of a Definition are exactly the quotation items found
\* in its sense node that have a date, a quote and a citation, in document
\* order, each as the stripped (date, quote, citation); an item missing one
\* of the three contributes nothing, and without quotation items the
\* examples are empty.
C11_ExamplesAreCompleteQuotations ==
    Returned =>
        \A k \in DOMAIN Entry.definitions :
            LET d == Entry.definitions[k]
                i == FirstSense(d.definition_text)
            IN  /\ Len(d.examples) = Cardinality(CompleteIn(i))
                /\ \A m \in DOMAIN d.examples :
                       LET q == QuotationsOf(i)[NthComplete(i, m)]
                       IN  d.examples[m]
                               = <<Strip(q.date[1]), Strip(q.text[1]),
                                   Strip(q.cite[1])>>
                /\ QuotationsOf(i) = <<>> => d.examples = <<>>

\* a page returned with a definition whose sense node holds an item without
\* citation before a complete item, and a definition without examples
C11_Witness ==
    /\ Returned
    /\ \E k \in DOMAIN Entry.definitions :
           LET i == FirstSense(Entry.definitions[k].definition_text)
           IN  /\ \E n \in DOMAIN QuotationsOf(i) :
                      /\ QuotationsOf(i)[n].cite = None
                      /\ \E o \in CompleteIn(i) : o > n
               /\ Len(Entry.definitions[k].examples) >= 1
               /\ Len(Entry.definitions[k].examples) < Len(QuotationsOf(i))
    /\ \E k \in DOMAIN Entry.definitions : Entry.definitions[k].examples = <<>>

-----------------------------------------------------------------------------
(* Properties of the etymons of an EtymologyEntry *)

SummaryStrings == EtymSection.summary[1].strings

\* text node n is the first of the summary subsection that contains "Etymon"
FirstMarked(n) ==
    /\ Contains(SummaryStrings[n].text, Etymon)
    /\ \A j \in 1..(n - 1) : ~Contains(SummaryStrings[j].text, Etymon)

\* C12: the etymons are the position-wise pairing of the language names and
\* the foreign forms found in the parent element of the first text node of
\* the summary subsection that contains "Etymon": as many pairs as the
\* shorter list has entries, pair k being (language k, form k), each
\* stripped; there are none when no text node contains the marker.
C12_EtymonsPairedByPosition ==
    (pc = "returned" /\ etymology_entry # None) =>
        LET etymons == etymology_entry[1].etymons
        IN  /\ (\A n \in DOMAIN SummaryStrings :
                    ~Contains(SummaryStrings[n].text, Etymon))
                   => etymons = <<>>
            /\ \A n \in DOMAIN SummaryStrings :
                   FirstMarked(n) =>
                       LET languages == SummaryStrings[n].languages
                           forms == SummaryStrings[n].forms
                       IN  /\ Len(etymons) <= Len(languages)
                           /\ Len(etymons) <= Len(forms)
                           /\ Len(etymons) = Len(languages)
                                  \/ Len(etymons) = Len(forms)
                           /\ \A k \in DOMAIN etymons :
                                  etymons[k]
                                      = <<Strip(languages[k]), Strip(forms[k])>>

\* an entry returned from a tab whose first marked text node has more
\* language names than forms and is followed by a marked text node with
\* other lists
C12_Witness ==
    /\ pc = "returned"
    /\ etymology_entry # None
    /\ etymology_entry[1].etymons # <<>>
    /\ \E n, o \in DOMAIN SummaryStrings :
           /\ FirstMarked(n)
           /\ n < o
           /\ Contains(SummaryStrings[o].text, Etymon)
           /\ Len(SummaryStrings[n].languages) > Len(SummaryStrings[n].forms)
           /\ Len(SummaryStrings[o].forms) > Len(SummaryStrings[n].forms)

-----------------------------------------------------------------------------
(* Properties of send_word_email *)

\* the calls made in the with block, QUIT at its exit left out
SessionCalls == SelectSeq(calls, LAMBDA c : c.op # "quit")

ExpectedArguments(k) ==
    IF k = 1 THEN <<config[1].smtp_server, config[1].smtp_port>>
    ELSE IF k = 3 THEN <<config[1].sender_email, config[1].sender_password>>
    ELSE IF k = 4
    THEN <<[Subject |-> <<"Word of the Day: ">> \o word_entry[1].word,
            From |-> config[1].sender_email,
            To |-> Join(config[1].recipient_list, <<",", " ">>),
            payload |-> email_body[1]]>>
    ELSE <<>>

\* C13: send_word_email opens one SMTP session to the configured server and
\* port, then calls starttls, login with the sender's credentials and
\* send_message, each once and in that order; a step that raises is the
\* last one made, its error leaves send_word_email, and no step is made a
\* second time.
C13_OneSessionInOrder ==
    /\ Len(SessionCalls) <= Len(Steps)
    /\ \A k \in DOMAIN SessionCalls :
           /\ SessionCalls[k].op = Steps[k]
           /\ SessionCalls[k].args = ExpectedArguments(k)
           /\ k < Len(SessionCalls) => SessionCalls[k].raised = ""
    /\ pc = "returned" =>
           /\ Len(SessionCalls) = Len(Steps)
           /\ \A k \in DOMAIN calls : calls[k].raised = ""
           /\ error = ""
    /\ \A k \in DOMAIN SessionCalls :
           SessionCalls[k].raised # "" =>
               /\ pc \in {"exit", "raised"}
               /\ pc = "exit" => error = SessionCalls[k].raised
               /\ error \in {SessionCalls[k].raised, "SMTPException"}

\* send_message raised after the session was opened, secured and logged in:
\* the error has left send_word_email
C13_Witness ==
    /\ pc = "raised"
    /\ error = "SMTPException"
    /\ Len(SessionCalls) = Len(Steps)
    /\ SessionCalls[Len(Steps)].op = "send_message"
    /\ SessionCalls[Len(Steps)].raised = "SMTPException"
    /\ \A k \in 1..(Len(Steps) - 1) : SessionCalls[k].raised = ""

-----------------------------------------------------------------------------
(* Properties of fetch_url and get_word_of_the_day_url *)

Finished == pc \in {"returned", "raised"}

\* the one request of the operation failed
FetchFailed == Len(calls) = 1 /\ calls[1].op = "GET" /\ calls[1].raised # ""

\* C14 as stated: a transport error of the fetch leaves fetch_url and
\* get_word_of_the_day_url unchanged, after one attempt, and is never
\* turned into a return value.
C14_TransportErrorPropagates ==
    Finished =>
        /\ Len(calls) = 1
        /\ FetchFailed => pc = "raised" /\ error = calls[1].raised

\* C14: the fetch is attempted once; a transport error leaves fetch_url
\* unchanged, while get_word_of_the_day_url catches it and returns None, as
\* it does for a homepage without a word-of-the-day link.
C14_TransportErrorCaughtByUrlLookup ==
    Finished =>
        /\ Len(calls) = 1
        /\ calls[1].op = "GET"
        /\ calls[1].args = <<IF url = None THEN OED_HOMEPAGE ELSE url[1]>>
        /\ (FetchFailed /\ url # None) =>
               pc = "raised" /\ error = calls[1].raised /\ result = None
        /\ (FetchFailed /\ url = None) =>
               pc = "returned" /\ error = "" /\ result = None
        /\ (~FetchFailed /\ url # None) => pc = "returned" /\ result # None

\* get_word_of_the_day_url has returned None after the request for the
\* homepage failed
C14_Witness ==
    /\ pc = "returned"
    /\ url = None
    /\ FetchFailed
    /\ result = None

-----------------------------------------------------------------------------
(* Properties of the word of a WordEntry *)

HeadwordText == page.headword[1]

\* the positions of the headword text that hold a letter, a hyphen or an
\* apostrophe
KeptPositions ==
    {k \in DOMAIN HeadwordText :
        HeadwordText[k] \in Letters \/ HeadwordText[k] \in {"-", "'"}}

\* C15: the word of a returned entry is the headword text without the
\* characters that are not a letter, a hyphen or an apostrophe, the kept
\* characters in their order: it holds nothing else.
C15_WordIsSanitizedHeadword ==
    Returned =>
        /\ Len(Entry.word) = Cardinality(KeptPositions)
        /\ \A k \in KeptPositions :
               Entry.word[Cardinality({j \in KeptPositions : j <= k})]
                   = HeadwordText[k]
        /\ \A k \in DOMAIN Entry.word :
               Entry.word[k] \in Letters \/ Entry.word[k] \in {"-", "'"}

\* a returned word whose headword text holds a digit or a footnote glyph
\* between two kept characters
C15_Witness ==
    /\ Returned
    /\ Len(Entry.word) = 2
    /\ Len(HeadwordText) = 3
    /\ HeadwordText[2] \in {"1", Sup1}

-----------------------------------------------------------------------------
(* Properties of the definitions kept for a definition text *)

\* C16: no two Definitions returned have the same definition_text, every
\* definition text found in a sense node is the text of one of them, and the
\* Definition kept for a text is the one built from the first sense node, in
\* depth-first document order, in which a definition element with that text
\* is found, sense nodes nested in one another included.
C16_FirstOccurrenceWins ==
    Returned =>
        /\ \A a, b \in DOMAIN Entry.definitions :
               a # b => Entry.definitions[a].definition_text
                            # Entry.definitions[b].definition_text
        /\ \A i \in WithDefinition :
               \E a \in DOMAIN Entry.definitions :
                   Entry.definitions[a].definition_text = TextOf(i)
        /\ \A a \in DOMAIN Entry.definitions :
               /\ \E i \in WithDefinition :
                      TextOf(i) = Entry.definitions[a].definition_text
               /\ <<Entry.definitions[a]>>
                      = get_definition_from_sense(SenseNodes,
                            FirstSense(Entry.definitions[a].definition_text))

\* a page returned where a sense node and one nested in it carry the same
\* definition text and would give different Definitions: the one kept is the
\* outer node's
C16_Witness ==
    /\ Returned
    /\ \E i, j \in WithDefinition :
           /\ SenseNodes[j].parent = i
           /\ TextOf(i) = TextOf(j)
           /\ TextOf(i) # <<>>
           /\ get_definition_from_sense(SenseNodes, i)
                  # get_definition_from_sense(SenseNodes, j)
           /\ Entry.definitions = get_definition_from_sense(SenseNodes, i)

-----------------------------------------------------------------------------
(* Properties of a run of main *)

\* the calls of a complete run, in order
RunOrder == <<"GET", "GET", "print_summary", "open", "write">>

\* call k was made and returned
Done(k) == k <= Len(calls) /\ calls[k].raised = ""

\* the entry page was fetched and WordEntry.from_html does not accept it
ExtractionFails ==
    /\ page # None
    /\ \/ page.headword = None
       \/ page.meaning = None

\* C17: a run of main finds the URL, fetches the entry page, extracts the
\* WordEntry, prints the summary and writes the raw HTML file, in that
\* order.  Without a URL no entry page is fetched; when the fetch or the
\* extraction fails the run ends with no summary printed and no file
\* written; a file is written only for a page whose extraction succeeded.
C17_MainStepsInOrder ==
    /\ Len(calls) <= Len(RunOrder)
    /\ \A k \in DOMAIN calls :
           /\ calls[k].op = RunOrder[k]
           /\ k > 1 => calls[k - 1].raised = ""
    /\ Len(calls) >= 2 =>
           /\ url # None
           /\ url[1] # <<>>
           /\ calls[2].args = <<url[1]>>
    /\ (url # None /\ url[1] = <<>>) => pc = "returned" /\ Len(calls) = 1
    /\ page # None <=> Done(2)
    /\ (Len(calls) = 2 /\ ~Done(2)) => pc = "returned"
    /\ word_entry # None => page # None /\ ~ExtractionFails
    /\ (ExtractionFails /\ pc # "from_html") => pc = "returned" /\ Len(calls) = 2
    /\ Len(calls) >= 3 =>
           /\ word_entry # None
           /\ calls[3].args = <<word_entry[1]>>
    /\ Len(calls) >= 4 =>
           calls[4].args = <<(<<"wotd_response_">> \o word_entry[1].word) \o <<".html">>>>
    /\ Len(calls) >= 5 => calls[5].args = <<page>>
    /\ (pc = "returned" /\ Len(calls) < Len(RunOrder)) =>
           \/ ~Done(Len(calls))
           \/ Len(calls) = 1 /\ url[1] = <<>>
           \/ Len(calls) = 2 /\ ExtractionFails
    /\ error = ""

\* a run that ended after the entry page was fetched and its extraction
\* failed: nothing printed, nothing written
C17_Witness ==
    /\ pc = "returned"
    /\ Done(2)
    /\ ExtractionFails
    /\ word_entry = None
    /\ Len(calls) = 2

====
